---- MODULE Spec2Model ----
(***************************************************************************)
(* project-puller: repository URL normalisation (repoURLToSSH,             *)
(* repoURLToHTTPS), fork URL derivation (forkURLFromUpstream), directory   *)
(* name derivation (repoDirName), the clone-or-pull step (cloneOrPull,     *)
(* ensureUpstreamOriginRemotes) and the driver loop (run) of src/main.go.  *)
(*                                                                         *)
(* A Go string is a sequence of characters; a character is a one-letter    *)
(* TLA+ string ("NUL" stands for the zero byte).  The only whitespace      *)
(* character of the model's alphabet is the blank " ".                     *)
(***************************************************************************)
EXTENDS Integers, Sequences, FiniteSets, TLC

VARIABLES
    url,        \* URL transforms: the raw URL handed to the first call
    calls,      \* URL transforms: the calls made so far, each [fn, arg, user, out]
    manifest,   \* run: insights.Project.Repositories, a sequence of [name, url]
    ssh,        \* run: the --ssh flag
    username,   \* run / cloneOrPull: the --username flag
    world,      \* run: "fresh" (empty output directory, git never fails) or "any"
    idx,        \* run: number of manifest entries the loop has taken up
    usedNames,  \* run: the usedNames map, as the set of its keys
    dirNames,   \* run: the directory names derived so far, in order
    fs,         \* run: working copies under the output directory, by directory name
    gitLog,     \* run: git commands issued so far, each [entry, cmd, ok]
    status,     \* run: "running", "done" (returned nil) or "error" (returned an error)
    gPrior,     \* cloneOrPull: the working copy before the call
    gURL,       \* cloneOrPull: the repoURL argument
    gRes        \* cloneOrPull: its outcome, or NoCall before the call

vars == <<url, calls, manifest, ssh, username, world, idx, usedNames, dirNames,
          fs, gitLog, status, gPrior, gURL, gRes>>

urlVars == <<url, calls>>
runVars == <<manifest, ssh, world, idx, usedNames, dirNames, fs, gitLog, status>>
gitVars == <<gPrior, gURL, gRes>>

(***************************************************************************)
(* Bounds of the model.                                                    *)
(***************************************************************************)
MaxCalls == 2       \* URL transforms chained on one input
MaxRepos == 3       \* manifest entries in one run

(***************************************************************************)
(* String literals of the source, spelled as character sequences.          *)
(***************************************************************************)
Empty == << >>
SP == <<" ">>
SLASH == <<"/">>
COLON == <<":">>
DOTGIT == <<".", "g", "i", "t">>
GITAT == <<"g", "i", "t", "@">>
HTTP == <<"h", "t", "t", "p">>
HTTPS_ == <<"h", "t", "t", "p", "s", ":", "/", "/">>
HTTP_ == <<"h", "t", "t", "p", ":", "/", "/">>
GITHUB == <<"g", "i", "t", "h", "u", "b", ".", "c", "o", "m">>
HTTPS_GITHUB == HTTPS_ \o GITHUB \o SLASH
HTTP_GITHUB == HTTP_ \o GITHUB \o SLASH
GITAT_GITHUB == GITAT \o GITHUB \o COLON

(***************************************************************************)
(* Go's strings package, on character sequences.                           *)
(***************************************************************************)
HasPrefix(s, p) == Len(s) >= Len(p) /\ SubSeq(s, 1, Len(p)) = p

HasSuffix(s, p) == Len(s) >= Len(p) /\ SubSeq(s, Len(s) - Len(p) + 1, Len(s)) = p

TrimPrefix(s, p) == IF HasPrefix(s, p) THEN SubSeq(s, Len(p) + 1, Len(s)) ELSE s

TrimSuffix(s, p) == IF HasSuffix(s, p) THEN SubSeq(s, 1, Len(s) - Len(p)) ELSE s

\* strings.Index(s, c) for a one-character c: the 0-based position of the
\* first c in s, -1 when there is none.
Index(s, c) ==
    IF \E k \in 1..Len(s) : s[k] = c
    THEN (CHOOSE k \in 1..Len(s) : s[k] = c /\ \A j \in 1..(k - 1) : s[j] # c) - 1
    ELSE -1

\* strings.LastIndex(s, c) for a one-character c.
LastIndex(s, c) ==
    IF \E k \in 1..Len(s) : s[k] = c
    THEN (CHOOSE k \in 1..Len(s) : s[k] = c /\ \A j \in (k + 1)..Len(s) : s[j] # c) - 1
    ELSE -1

\* strings.Contains(s, c) for a one-character c.
Contains(s, c) == \E k \in 1..Len(s) : s[k] = c

\* s[:i] and s[i:] of Go (0-based i).
Before(s, i) == SubSeq(s, 1, i)
From(s, i) == SubSeq(s, i + 1, Len(s))

\* strings.Trim(s, cutset) for a one-character cutset: drop every leading
\* and trailing c.
RECURSIVE TrimLeft(_, _)
TrimLeft(s, c) == IF Len(s) > 0 /\ s[1] = c THEN TrimLeft(Tail(s), c) ELSE s

RECURSIVE TrimRight(_, _)
TrimRight(s, c) ==
    IF Len(s) > 0 /\ s[Len(s)] = c THEN TrimRight(SubSeq(s, 1, Len(s) - 1), c) ELSE s

Trim(s, c) == TrimRight(TrimLeft(s, c), c)

\* strings.TrimSpace: the blank is the alphabet's only whitespace.
TrimSpace(s) == Trim(s, " ")

\* strings.SplitN(s, "/", 2): one part when s holds no "/", else the text
\* before the first "/" and everything after it.
SplitN2(s) ==
    IF Contains(s, "/")
    THEN <<Before(s, Index(s, "/")), From(s, Index(s, "/") + 1)>>
    ELSE <<s>>

\* strings.Map with a function that drops the characters of `drop`.
RECURSIVE DropChars(_, _)
DropChars(s, drop) ==
    IF s = Empty THEN Empty
    ELSE IF s[1] \in drop THEN DropChars(Tail(s), drop)
    ELSE <<s[1]>> \o DropChars(Tail(s), drop)

\* fmt's %d of a non-negative int.
DigitChars == <<"0", "1", "2", "3", "4", "5", "6", "7", "8", "9">>

Digit(d) == <<DigitChars[d + 1]>>

RECURSIVE Itoa(_)
Itoa(n) == IF n < 10 THEN Digit(n) ELSE Itoa(n \div 10) \o Digit(n % 10)

(***************************************************************************)
(* net/url on the model's alphabet (letters, digits, ". - / : @" and the   *)
(* blank; no "?", "#", "%" or "[").  ParseURL is url.Parse on a string     *)
(* that starts with "http://" or "https://": the authority runs to the     *)
(* first "/", the rest is the path.  Parsing fails on a blank in the       *)
(* authority and on a port that is not a number.                           *)
(***************************************************************************)
AfterScheme(s) == From(s, Index(s, ":") + 3)

Authority(s) ==
    IF Contains(AfterScheme(s), "/")
    THEN Before(AfterScheme(s), Index(AfterScheme(s), "/"))
    ELSE AfterScheme(s)

HostPort(s) ==
    IF Contains(Authority(s), "@")
    THEN From(Authority(s), LastIndex(Authority(s), "@") + 1)
    ELSE Authority(s)

ValidPort(h) ==
    Contains(h, ":") =>
        \A k \in (LastIndex(h, ":") + 2)..Len(h) : h[k] \in {DigitChars[d] : d \in 1..10}

ParseURL(s) ==
    [ok     |-> ~Contains(Authority(s), " ") /\ ValidPort(HostPort(s)),
     scheme |-> Before(s, Index(s, ":")),
     user   |-> IF Contains(Authority(s), "@")
                THEN Before(Authority(s), LastIndex(Authority(s), "@") + 1)
                ELSE Empty,
     host   |-> HostPort(s),
     path   |-> IF Contains(AfterScheme(s), "/")
                THEN From(AfterScheme(s), Index(AfterScheme(s), "/"))
                ELSE Empty]

\* (*URL).EscapedPath: of the alphabet only the blank is escaped.
RECURSIVE EscapePath(_)
EscapePath(p) ==
    IF p = Empty THEN Empty
    ELSE (IF p[1] = " " THEN <<"%", "2", "0">> ELSE <<p[1]>>) \o EscapePath(Tail(p))

\* (*URL).String of a parsed http(s) URL whose Path is `path`.
URLString(u, path) ==
    u.scheme \o <<":", "/", "/">> \o u.user \o u.host \o EscapePath(path)

(***************************************************************************)
(* Results of the URL transforms: (string, error).                         *)
(***************************************************************************)
Ok(s) == [ok |-> TRUE, url |-> s]
Err == [ok |-> FALSE, url |-> Empty]

IsHTTPForm(s) == HasPrefix(s, HTTPS_) \/ HasPrefix(s, HTTP_)
IsGitHubHTTPForm(s) == HasPrefix(s, HTTPS_GITHUB) \/ HasPrefix(s, HTTP_GITHUB)

\* The test of main.go for "host:path": a colon after the first character
\* with no slash before it.
HostColonPath(s) == Index(s, ":") > 0 /\ ~Contains(Before(s, Index(s, ":")), "/")

\* The conversion both http(s) branches of repoURLToSSH share: the path
\* without its surrounding slashes and one ".git", behind git@<host>:, the
\* host being github.com in the GitHub branch and u.Host in the generic one.
SSHFromHTTP(s, github) ==
    LET u == ParseURL(s)
        path == TrimSuffix(Trim(u.path, "/"), DOTGIT)
    IN  IF ~u.ok THEN Err
        ELSE IF path = Empty \/ ~Contains(path, "/") THEN Err
        ELSE Ok(GITAT \o (IF github THEN GITHUB ELSE u.host) \o COLON \o path \o DOTGIT)

\* An already-SSH input given the ".git" suffix without a look at its end.
AlreadySSHAddGit(s) == Ok(s \o DOTGIT)

\* What repoURLToSSH returns for an input that is already in SSH form.
AlreadySSH(s) == Ok(s)

repoURLToSSH(repoURL) ==
    LET s == TrimSpace(repoURL)
    IN  IF HasPrefix(s, GITAT) THEN AlreadySSH(s)
        ELSE IF HostColonPath(s) /\ ~HasPrefix(s, HTTP) THEN AlreadySSH(s)
        ELSE IF IsGitHubHTTPForm(s) THEN SSHFromHTTP(s, TRUE)
        ELSE IF IsHTTPForm(s) THEN SSHFromHTTP(s, FALSE)
        ELSE Err

\* What repoURLToHTTPS returns for an input that is already http(s).
AlreadyHTTPS(s) == Ok(s)

\* The git@github.com: branch without the TrimSuffix of ".git".
HTTPSFromGitHubSSHKeepGit(s) ==
    LET path == TrimPrefix(s, GITAT_GITHUB)
    IN  IF path = Empty \/ ~Contains(path, "/") THEN Err
        ELSE Ok(HTTPS_GITHUB \o path)

\* The git@github.com: branch without the owner/repo test.
HTTPSFromGitHubSSHUnchecked(s) ==
    Ok(HTTPS_GITHUB \o TrimSuffix(TrimPrefix(s, GITAT_GITHUB), DOTGIT))

\* The git@github.com: branch of repoURLToHTTPS.
HTTPSFromGitHubSSH(s) ==
    LET path == TrimSuffix(TrimPrefix(s, GITAT_GITHUB), DOTGIT)
    IN  IF path = Empty \/ ~Contains(path, "/") THEN Err
        ELSE Ok(HTTPS_GITHUB \o path)

\* The generic git@host:path branch of repoURLToHTTPS.
HTTPSFromGitAt(s) ==
    LET rest == From(s, Len(GITAT))
        i == Index(rest, ":")
    IN  IF i <= 0 THEN Err
        ELSE Ok(HTTPS_ \o Before(rest, i) \o SLASH \o TrimSuffix(From(rest, i + 1), DOTGIT))

\* The host:path branch without the TrimSuffix of ".git".
HTTPSFromHostPathKeepGit(s) ==
    LET i == Index(s, ":")
    IN  Ok(HTTPS_ \o Before(s, i) \o SLASH \o From(s, i + 1))

\* The host:path branch of repoURLToHTTPS.
HTTPSFromHostPath(s) ==
    LET i == Index(s, ":")
    IN  Ok(HTTPS_ \o Before(s, i) \o SLASH \o TrimSuffix(From(s, i + 1), DOTGIT))

repoURLToHTTPS(repoURL) ==
    LET s == TrimSpace(repoURL)
    IN  IF IsHTTPForm(s) THEN AlreadyHTTPS(s)
        ELSE IF HasPrefix(s, GITAT_GITHUB) THEN HTTPSFromGitHubSSH(s)
        ELSE IF HasPrefix(s, GITAT) THEN HTTPSFromGitAt(s)
        ELSE IF HostColonPath(s) THEN HTTPSFromHostPath(s)
        ELSE Err

normalizeRepoURL(repoURL, useSSH) ==
    IF useSSH THEN repoURLToSSH(repoURL) ELSE repoURLToHTTPS(repoURL)

\* The GitHub http(s) branch appending ".git" whatever the input ends in.
ForkGitHubHTTPAddGit(s, user) ==
    LET u == ParseURL(s)
        path == TrimSuffix(TrimPrefix(u.path, SLASH), DOTGIT)
        parts == SplitN2(path)
    IN  IF ~u.ok THEN Err
        ELSE IF Len(parts) < 2 THEN Err
        ELSE Ok(URLString(u, SLASH \o user \o SLASH \o parts[2] \o DOTGIT))

\* The GitHub http(s) branch of forkURLFromUpstream.
ForkGitHubHTTP(s, user) ==
    LET u == ParseURL(s)
        path == TrimSuffix(TrimPrefix(u.path, SLASH), DOTGIT)
        parts == SplitN2(path)
        newPath == SLASH \o user \o SLASH \o parts[2]
    IN  IF ~u.ok THEN Err
        ELSE IF Len(parts) < 2 THEN Err
        ELSE Ok(URLString(u, IF HasSuffix(s, DOTGIT) THEN newPath \o DOTGIT ELSE newPath))

\* The git@github.com: branch of forkURLFromUpstream.
ForkGitHubSSH(s, user) ==
    LET parts == SplitN2(TrimPrefix(s, GITAT_GITHUB))
    IN  IF Len(parts) < 2 THEN Err
        ELSE Ok(GITAT_GITHUB \o user \o SLASH \o TrimSuffix(parts[2], DOTGIT) \o DOTGIT)

\* The generic http(s) branch of forkURLFromUpstream.
ForkHTTP(s, user) ==
    LET u == ParseURL(s)
        segments == SplitN2(Trim(u.path, "/"))
    IN  IF ~u.ok THEN Err
        ELSE IF Len(segments) < 2 THEN Err
        ELSE Ok(URLString(u, SLASH \o user \o SLASH \o segments[2]))

\* The host:owner/repo branch of forkURLFromUpstream.
ForkHostPath(s, user) ==
    LET i == Index(s, ":")
        parts == SplitN2(From(s, i + 1))
    IN  IF Len(parts) < 2 THEN Err
        ELSE Ok(Before(s, i) \o COLON \o user \o SLASH \o parts[2])

\* The username substituted as given, blanks included.
ForkOwnerRaw(name) == name

\* The username forkURLFromUpstream substitutes for the owner.
ForkOwner(name) == TrimSpace(name)

forkURLFromUpstream(repoURL, name) ==
    LET s == TrimSpace(repoURL)
        user == ForkOwner(name)
    IN  IF TrimSpace(name) = Empty THEN Err
        ELSE IF IsGitHubHTTPForm(s) THEN ForkGitHubHTTP(s, user)
        ELSE IF HasPrefix(s, GITAT_GITHUB) THEN ForkGitHubSSH(s, user)
        ELSE IF IsHTTPForm(s) THEN ForkHTTP(s, user)
        ELSE IF HostColonPath(s) THEN ForkHostPath(s, user)
        ELSE Err

(***************************************************************************)
(* The URL transforms applied to bounded inputs.  A raw URL is put         *)
(* together from a scheme, a host, a separator, a path and a suffix, with  *)
(* or without blanks around it; up to MaxCalls transforms are chained on   *)
(* it, each one applied to the URL the previous one returned.              *)
(***************************************************************************)
HostIO == <<"h", ".", "i", "o">>

Pads == {Empty, SP}
Schemes == {Empty, HTTPS_, HTTP_, GITAT}
Hosts == {GITHUB, HostIO, Empty}
Seps == {SLASH, COLON, Empty}
Paths == {Empty, <<"o">>, <<"o", "/", "w">>, <<"o", "/">>, <<"/", "w">>,
          <<"o", "/", "w", "/">>, <<"o", "/", "w", " ">>, <<"o", "/", "w", "/", "x">>}
Suffixes == {Empty, DOTGIT, DOTGIT \o DOTGIT}

URLs == {a \o sc \o h \o sep \o p \o sf \o b :
            a \in Pads, sc \in Schemes, h \in Hosts, sep \in Seps,
            p \in Paths, sf \in Suffixes, b \in Pads}

Usernames == {Empty, SP, <<"a", "l">>, <<" ", "a", "l">>}

NoCall == [ok |-> FALSE, none |-> TRUE]

\* The values the variables of the other specifications rest at.
IdleURL == url = Empty /\ calls = << >>
IdleRun ==
    /\ manifest = << >> /\ ssh = FALSE /\ world = "idle"
    /\ idx = 0 /\ usedNames = {} /\ dirNames = << >> /\ fs = << >>
    /\ gitLog = << >> /\ status = "idle"
IdleGit == gPrior = NoCall /\ gURL = Empty /\ gRes = NoCall

\* The URL the next transform is applied to.
Cur == IF calls = << >> THEN url ELSE calls[Len(calls)].out.url

CanCall == Len(calls) < MaxCalls /\ (calls # << >> => calls[Len(calls)].out.ok)

InitURL == url \in URLs /\ calls = << >> /\ username = Empty /\ IdleRun /\ IdleGit

CallToSSH ==
    /\ CanCall
    /\ calls' = Append(calls, [fn |-> "toSSH", arg |-> Cur, user |-> Empty,
                               out |-> repoURLToSSH(Cur)])
    /\ UNCHANGED <<url, runVars, username, gitVars>>

CallToHTTPS ==
    /\ CanCall
    /\ calls' = Append(calls, [fn |-> "toHTTPS", arg |-> Cur, user |-> Empty,
                               out |-> repoURLToHTTPS(Cur)])
    /\ UNCHANGED <<url, runVars, username, gitVars>>

CallFork ==
    /\ CanCall
    /\ \E n \in Usernames :
         calls' = Append(calls, [fn |-> "fork", arg |-> Cur, user |-> n,
                                 out |-> forkURLFromUpstream(Cur, n)])
    /\ UNCHANGED <<url, runVars, username, gitVars>>

NextURL == CallToSSH \/ CallToHTTPS \/ CallFork

SpecURL == InitURL /\ [][NextURL]_vars

(***************************************************************************)
(* The documented URL forms, read off a URL independently of the           *)
(* transforms: <scheme>://<host>/<owner>/<repo>[.git] and                  *)
(* [git@]<host>:<owner>/<repo>[.git], where host, owner and repo are       *)
(* plain names and repo itself does not end in ".git".                     *)
(***************************************************************************)
NameChars ==
    {"a", "b", "c", "d", "e", "f", "g", "h", "i", "j", "k", "l", "m", "n", "o", "p",
     "q", "r", "s", "t", "u", "v", "w", "x", "y", "z", "-", ".", "_"}
       \cup {DigitChars[d] : d \in 1..10}

IsName(s) == s # Empty /\ \A k \in 1..Len(s) : s[k] \in NameChars

Lead(u) ==
    IF HasPrefix(u, HTTPS_) THEN HTTPS_
    ELSE IF HasPrefix(u, HTTP_) THEN HTTP_
    ELSE IF HasPrefix(u, GITAT) THEN GITAT
    ELSE Empty

Shape(u) ==
    LET lead == Lead(u)
        sep == IF lead \in {HTTPS_, HTTP_} THEN "/" ELSE ":"
        r1 == From(u, Len(lead))
        i == Index(r1, sep)
        r2 == From(r1, i + 1)
        j == Index(r2, "/")
        r3 == From(r2, j + 1)
    IN  [valid  |-> /\ i > 0 /\ j > 0
                    /\ IsName(Before(r1, i)) /\ IsName(Before(r2, j))
                    /\ IsName(TrimSuffix(r3, DOTGIT))
                    /\ ~HasSuffix(TrimSuffix(r3, DOTGIT), DOTGIT),
         lead   |-> lead,
         host   |-> Before(r1, i),
         owner  |-> Before(r2, j),
         repo   |-> TrimSuffix(r3, DOTGIT),
         dotgit |-> HasSuffix(r3, DOTGIT)]

IsGitHubHTTPS(u) == Shape(u).valid /\ Shape(u).lead = HTTPS_ /\ Shape(u).host = GITHUB
IsGitHubSSH(u) == Shape(u).valid /\ Shape(u).lead = GITAT /\ Shape(u).host = GITHUB

\* The text after the last "/" of a URL.
LastSegment(u) == From(u, LastIndex(u, "/") + 1)

NonBlank(n) == TrimSpace(n) # Empty

Calls == {calls[k] : k \in 1..Len(calls)}

(***************************************************************************)
(* C2.  Round trip: for a well-formed GitHub HTTPS URL u, toSSH(u)         *)
(* succeeds, and toHTTPS of its result succeeds and is u without its       *)
(* ".git" suffix.                                                          *)
(***************************************************************************)
C2_RoundTrip ==
    (calls # << >> /\ IsGitHubHTTPS(url) /\ calls[1].fn = "toSSH") =>
        /\ calls[1].out.ok
        /\ (Len(calls) >= 2 /\ calls[2].fn = "toHTTPS") =>
              /\ calls[2].out.ok
              /\ calls[2].out.url = TrimSuffix(url, DOTGIT)

C2_Witness ==
    /\ Len(calls) = 2 /\ IsGitHubHTTPS(url) /\ HasSuffix(url, DOTGIT)
    /\ calls[1].fn = "toSSH" /\ calls[2].fn = "toHTTPS" /\ calls[2].out.ok

(***************************************************************************)
(* C3.  Idempotence as claimed: whenever toSSH (toHTTPS) succeeds on u,    *)
(* applying it again to the result succeeds and returns the same URL.      *)
(***************************************************************************)
Repeated(f) ==
    Len(calls) >= 2 /\ calls[1].fn = f /\ calls[2].fn = f /\ calls[1].out.ok

C3_IdempotentAsClaimed ==
    \A f \in {"toSSH", "toHTTPS"} : Repeated(f) => calls[2].out = calls[1].out

\* A blank directly before the trailing ".git" of the (trimmed) input.
BlankBeforeDotGit(u) == HasSuffix(TrimSpace(u), SP \o DOTGIT)

(***************************************************************************)
(* C3, amended.  toSSH is idempotent on every URL it succeeds on; toHTTPS  *)
(* is idempotent on every URL it succeeds on that has no whitespace        *)
(* directly before a trailing ".git".                                      *)
(***************************************************************************)
C3_Idempotent ==
    /\ Repeated("toSSH") => calls[2].out = calls[1].out
    /\ (Repeated("toHTTPS") /\ ~BlankBeforeDotGit(url)) => calls[2].out = calls[1].out

C3_Witness ==
    /\ Repeated("toHTTPS") /\ calls[2].out.ok
    /\ url # TrimSpace(url) /\ ~IsHTTPForm(TrimSpace(url))

(***************************************************************************)
(* C4 as claimed.  Fork-owner substitution: for a valid upstream URL and   *)
(* any non-blank username N, deriveForkURL succeeds with a URL of the same *)
(* form and host whose owner is exactly N and whose repo is the upstream's *)
(* (".git" always present for GitHub SSH, else as in the input).           *)
(***************************************************************************)
ForkOf(c, owner) ==
    LET a == Shape(c.arg)
        b == Shape(c.out.url)
    IN  /\ c.out.ok
        /\ b.valid /\ b.lead = a.lead /\ b.host = a.host
        /\ b.owner = owner /\ b.repo = a.repo
        /\ b.dotgit = (IF IsGitHubSSH(c.arg) THEN TRUE ELSE a.dotgit)

C4_ForkOwnerAsClaimed ==
    \A c \in Calls :
        (c.fn = "fork" /\ Shape(c.arg).valid /\ NonBlank(c.user)) => ForkOf(c, c.user)

(***************************************************************************)
(* C4, amended.  For a valid upstream URL and a username N that, with its  *)
(* surrounding whitespace trimmed, is a plain name, deriveForkURL succeeds *)
(* with a URL of the same form and host whose owner is the trimmed N and   *)
(* whose repo is the upstream's.                                           *)
(***************************************************************************)
C4_ForkOwner ==
    \A c \in Calls :
        (c.fn = "fork" /\ Shape(c.arg).valid /\ IsName(TrimSpace(c.user))) =>
            ForkOf(c, TrimSpace(c.user))

C4_Witness ==
    \E c \in Calls :
        /\ c.fn = "fork" /\ Shape(c.arg).valid /\ Shape(c.arg).lead = GITAT
        /\ IsName(TrimSpace(c.user)) /\ c.user # TrimSpace(c.user) /\ c.out.ok

(***************************************************************************)
(* C7 as claimed, on inputs of the documented forms.  Whenever toSSH       *)
(* succeeds its result ends in ".git", and whenever toHTTPS succeeds its   *)
(* result does not end in ".git" (inputs already in the target form        *)
(* included).                                                              *)
(***************************************************************************)
C7_SuffixAsClaimed ==
    \A c \in Calls :
        Shape(c.arg).valid =>
            /\ (c.fn = "toSSH" /\ c.out.ok) => HasSuffix(c.out.url, DOTGIT)
            /\ (c.fn = "toHTTPS" /\ c.out.ok) => ~HasSuffix(c.out.url, DOTGIT)

(***************************************************************************)
(* C7, amended.  On an input that is not already in the target form:       *)
(* toSSH (of an http(s) URL), when it succeeds, returns a URL ending in    *)
(* ".git"; toHTTPS (of a URL not starting with http:// or https://), when  *)
(* it succeeds, returns a URL that does not end in ".git" unless the       *)
(* input ended in ".git.git".  An input already in the target form is      *)
(* returned as it is, whitespace-trimmed, with or without ".git".          *)
(***************************************************************************)
C7_Suffix ==
    \A c \in Calls :
        LET s == TrimSpace(c.arg)
        IN  /\ (c.fn = "toSSH" /\ c.out.ok /\ IsHTTPForm(s)) =>
                  HasSuffix(c.out.url, DOTGIT)
            /\ (c.fn = "toHTTPS" /\ c.out.ok /\ ~IsHTTPForm(s)
                   /\ ~HasSuffix(s, DOTGIT \o DOTGIT)) =>
                  ~HasSuffix(c.out.url, DOTGIT)
            /\ (c.fn = "toSSH" /\ c.out.ok /\ ~IsHTTPForm(s)) => c.out.url = s
            /\ (c.fn = "toHTTPS" /\ IsHTTPForm(s)) => c.out = Ok(s)

C7_Witness ==
    \E c \in Calls, d \in Calls :
        /\ c.fn = "toSSH" /\ c.out.ok /\ IsHTTPForm(TrimSpace(c.arg))
        /\ ~HasSuffix(c.arg, DOTGIT)
        /\ d.fn = "toHTTPS" /\ d.out.ok /\ HasSuffix(d.arg, DOTGIT)
        /\ d.out.url # d.arg

(***************************************************************************)
(* The recognized forms of C8 and the path of a URL in one of them: the    *)
(* text after the first "/" that follows http(s)://, or after the first    *)
(* ":" of git@host:... and host:...                                        *)
(***************************************************************************)
Recognized(s) == IsHTTPForm(s) \/ HostColonPath(s)

PathOf(s) ==
    IF IsHTTPForm(s)
    THEN IF Contains(From(s, Len(Lead(s))), "/")
         THEN From(s, Len(Lead(s)) + Index(From(s, Len(Lead(s))), "/") + 1)
         ELSE Empty
    ELSE From(s, Index(s, ":") + 1)

\* The path holds a non-empty owner and a non-empty repo segment.
HasOwnerAndRepo(s) ==
    LET parts == SplitN2(PathOf(s))
    IN  /\ Len(parts) = 2
        /\ parts[1] # Empty
        /\ TrimSuffix(Trim(parts[2], "/"), DOTGIT) # Empty

(***************************************************************************)
(* C8 as claimed.  For toSSH, toHTTPS and deriveForkURL (non-blank         *)
(* username): an input in a recognized form whose path does not hold a     *)
(* non-empty owner and a non-empty repo yields an error.                   *)
(***************************************************************************)
C8_MalformedAsClaimed ==
    \A c \in Calls :
        LET s == TrimSpace(c.arg)
        IN  (/\ Recognized(s) /\ ~HasOwnerAndRepo(s)
             /\ (c.fn = "fork" => NonBlank(c.user))) => ~c.out.ok

(***************************************************************************)
(* C8, amended.  An input in a recognized form whose path holds no "/"     *)
(* at all (at most one segment) yields an error from toSSH when the input  *)
(* is an http(s) URL, from toHTTPS when the input starts with              *)
(* git@github.com:, and from deriveForkURL (non-blank username) in every   *)
(* recognized form.                                                        *)
(***************************************************************************)
C8_Malformed ==
    \A c \in Calls :
        LET s == TrimSpace(c.arg)
        IN  (/\ Recognized(s) /\ ~Contains(PathOf(s), "/")
             /\ \/ c.fn = "toSSH" /\ IsHTTPForm(s)
                \/ c.fn = "toHTTPS" /\ HasPrefix(s, GITAT_GITHUB)
                \/ c.fn = "fork" /\ NonBlank(c.user)) => ~c.out.ok

C8_Witness ==
    \E c \in Calls :
        /\ c.fn = "fork" /\ NonBlank(c.user)
        /\ HasPrefix(c.arg, GITAT) /\ HostColonPath(c.arg)
        /\ PathOf(c.arg) = <<"o">> \o DOTGIT /\ ~c.out.ok

(***************************************************************************)
(* C9.  Fork-URL suffix asymmetry.  For a GitHub HTTPS upstream            *)
(* (https://github.com/owner/repo[.git]) and a non-blank username the      *)
(* result ends in ".git" exactly when the input does, its last segment     *)
(* being the input's verbatim; for a GitHub SSH shorthand upstream         *)
(* (git@github.com:owner/repo[.git]) the result ends in exactly one        *)
(* ".git", appended to the input's repo name.                              *)
(***************************************************************************)
C9_ForkSuffix ==
    \A c \in Calls :
        (c.fn = "fork" /\ NonBlank(c.user)) =>
            /\ IsGitHubHTTPS(c.arg) =>
                  /\ c.out.ok
                  /\ HasSuffix(c.out.url, DOTGIT) <=> HasSuffix(c.arg, DOTGIT)
                  /\ LastSegment(c.out.url) = LastSegment(c.arg)
            /\ IsGitHubSSH(c.arg) =>
                  /\ c.out.ok
                  /\ HasSuffix(c.out.url, DOTGIT)
                  /\ ~HasSuffix(TrimSuffix(c.out.url, DOTGIT), DOTGIT)
                  /\ LastSegment(c.out.url) = Shape(c.arg).repo \o DOTGIT

C9_Witness ==
    \E c \in Calls :
        /\ c.fn = "fork" /\ NonBlank(c.user) /\ IsGitHubSSH(c.arg)
        /\ ~HasSuffix(c.arg, DOTGIT) /\ c.out.ok

(***************************************************************************)
(* Directory names (repoDirName and its helpers).                          *)
(***************************************************************************)
sanitizeDirName(s) == DropChars(s, {"/", "\\", "NUL"})

\* lastPathComponent without the TrimSuffix of ".git".
lastPathComponentKeepGit(u) ==
    IF LastIndex(u, "/") >= 0 THEN From(u, LastIndex(u, "/") + 1) ELSE u

lastPathComponent(u) ==
    LET t == TrimSuffix(u, DOTGIT)
    IN  IF LastIndex(t, "/") >= 0 THEN From(t, LastIndex(t, "/") + 1) ELSE t

\* fmt.Sprintf("%s-%d", base, i)
Suffixed(base, i) == base \o <<"-">> \o Itoa(i)

\* The loop of repoDirName: `for i := 0; usedNames[candidate]; i++`.
RECURSIVE CandidateLoop(_, _, _, _)
CandidateLoop(base, candidate, i, used) ==
    IF candidate \in used
    THEN CandidateLoop(base, IF i = 0 THEN base ELSE Suffixed(base, i), i + 1, used)
    ELSE candidate

\* repoDirName without the usedNames test on the display name.
TakesDisplayNameUnchecked(name, dirName, used) == name # Empty /\ dirName # Empty

\* The test under which repoDirName returns the display name's directory.
TakesDisplayName(name, dirName, used) == name # Empty /\ dirName # Empty /\ dirName \notin used

repoDirName(rname, repoURL, used) ==
    LET name == TrimSpace(rname)
        dirName == sanitizeDirName(name)
        base == lastPathComponent(repoURL)
    IN  IF TakesDisplayName(name, dirName, used) THEN dirName
        ELSE CandidateLoop(base, base, 0, used)

(***************************************************************************)
(* git, as cloneOrPull drives it.  A working copy is [exists, upstream,    *)
(* origin]: whether <target>/.git is a directory, and the URL of each of   *)
(* the two remotes (Empty: no such remote).  An execution carries the      *)
(* working copy, the commands issued, the number of commands run through   *)
(* runGit, and whether an error has been returned.  Command number failAt  *)
(* fails for a reason outside the program (network, permissions); 0: none. *)
(***************************************************************************)
Absent == [exists |-> FALSE, upstream |-> Empty, origin |-> Empty]

Begin(wc) == [wc |-> wc, log |-> << >>, n |-> 0, ok |-> TRUE]

Failed(st) == [st EXCEPT !.ok = FALSE]

\* runGit(cmd): the command takes effect when git accepts it (pre) and
\* nothing outside the program makes it fail.
runGit(st, cmd, pre, after, failAt) ==
    LET good == pre /\ st.n + 1 # failAt
    IN  [wc  |-> IF good THEN after ELSE st.wc,
         log |-> Append(st.log, [cmd |-> cmd, ok |-> good]),
         n   |-> st.n + 1,
         ok  |-> good]

\* remoteExists(dir, name): `git remote get-url <name>` succeeds.
remoteExists(wc, name) == IF name = "upstream" THEN wc.upstream # Empty ELSE wc.origin # Empty

Probed(st) ==
    [st EXCEPT !.log = st.log \o <<[cmd |-> "remote get-url upstream", ok |-> remoteExists(st.wc, "upstream")],
                                  [cmd |-> "remote get-url origin", ok |-> remoteExists(st.wc, "origin")]>>]

addOriginRemote(st, forkURL, failAt) ==
    runGit(st, "remote add origin", st.wc.origin = Empty,
           [st.wc EXCEPT !.origin = forkURL], failAt)

\* The step of ensureUpstreamOriginRemotes and cloneOrPull that derives the
\* fork URL and adds it as origin.
AddFork(st, repoURL, user, failAt) ==
    LET fork == forkURLFromUpstream(repoURL, user)
    IN  IF ~fork.ok THEN Failed(st) ELSE addOriginRemote(st, fork.url, failAt)

\* What ensureUpstreamOriginRemotes does when both remotes exist, or neither.
BothOrNeither(st) == st

ensureUpstreamOriginRemotes(st0, repoURL, user, failAt) ==
    LET st == Probed(st0)
        hasUpstream == remoteExists(st.wc, "upstream")
        hasOrigin == remoteExists(st.wc, "origin")
        renamed == runGit(st, "remote rename origin upstream", TRUE,
                          [st.wc EXCEPT !.upstream = st.wc.origin, !.origin = Empty],
                          failAt)
    IN  IF hasUpstream /\ ~hasOrigin THEN AddFork(st, repoURL, user, failAt)
        ELSE IF ~hasUpstream /\ hasOrigin
        THEN IF ~renamed.ok THEN renamed ELSE AddFork(renamed, repoURL, user, failAt)
        ELSE BothOrNeither(st)

\* `git pull upstream` needs the remote; plain `git pull` needs some remote.
PullUpstream(st, failAt) ==
    runGit(st, "pull upstream", st.wc.upstream # Empty, st.wc, failAt)

Pull(st, failAt) ==
    runGit(st, "pull", st.wc.upstream # Empty \/ st.wc.origin # Empty, st.wc, failAt)

\* The remote a fresh clone for a fork user gets, and its URL.
CloneUpstream(st, repoURL, failAt) ==
    runGit(st, "clone -o upstream", TRUE,
           [exists |-> TRUE, upstream |-> repoURL, origin |-> Empty], failAt)

Clone(st, repoURL, failAt) ==
    runGit(st, "clone", TRUE,
           [exists |-> TRUE, upstream |-> Empty, origin |-> repoURL], failAt)

cloneOrPull(wc, repoURL, user, failAt) ==
    LET st == Begin(wc)
        ensured == ensureUpstreamOriginRemotes(st, repoURL, user, failAt)
        cloned == CloneUpstream(st, repoURL, failAt)
    IN  IF wc.exists
        THEN IF user # Empty
             THEN IF ~ensured.ok THEN ensured ELSE PullUpstream(ensured, failAt)
             ELSE Pull(st, failAt)
        ELSE IF user # Empty
             THEN IF ~cloned.ok THEN cloned ELSE AddFork(cloned, repoURL, user, failAt)
             ELSE Clone(st, repoURL, failAt)

\* Which runGit command may fail for outside reasons: none, or one of the
\* at most three a call issues (rename, add, pull).
FailPoints == {0, 1, 2, 3}

(***************************************************************************)
(* One call of cloneOrPull on a working copy in any state: absent, or      *)
(* present with each remote missing, pointing at the project, at the       *)
(* user's fork, or somewhere else.  The repoURL argument is a URL that     *)
(* normalizeRepoURL returns.                                               *)
(***************************************************************************)
GitRawURLs ==
    {HTTPS_GITHUB \o <<"o", "/", "w">>, GITAT_GITHUB \o <<"o", "/", "w">>,
     HostIO \o COLON \o <<"o", "/", "w">> \o DOTGIT, HTTPS_GITHUB \o <<"w">>}

GitURLs ==
    {normalizeRepoURL(u, m).url : <<u, m>> \in
        {x \in GitRawURLs \X BOOLEAN : normalizeRepoURL(x[1], x[2]).ok}}

OtherURL == HTTPS_ \o HostIO \o <<"/", "x", "/", "y">>

RemoteChoices(u, n) ==
    {Empty, u, OtherURL} \cup
        (IF forkURLFromUpstream(u, n).ok THEN {forkURLFromUpstream(u, n).url} ELSE {})

PriorCopies(u, n) ==
    {Absent} \cup {[exists |-> TRUE, upstream |-> a, origin |-> b] :
                      a \in RemoteChoices(u, n), b \in RemoteChoices(u, n)}

InitGit ==
    /\ username \in Usernames
    /\ gURL \in GitURLs
    /\ gPrior \in PriorCopies(gURL, username)
    /\ gRes = NoCall
    /\ IdleURL /\ IdleRun

CallCloneOrPull ==
    /\ gRes = NoCall
    /\ \E failAt \in FailPoints : gRes' = cloneOrPull(gPrior, gURL, username, failAt)
    /\ UNCHANGED <<urlVars, runVars, username, gPrior, gURL>>

NextGit == CallCloneOrPull

SpecGit == InitGit /\ [][NextGit]_vars

(***************************************************************************)
(* run: the loop over insights.Project.Repositories.  In the "fresh"       *)
(* world the output directory is empty and git never fails; in the "any"   *)
(* world a target path the run has not touched holds what an earlier run   *)
(* may have left there, and any git command may fail.                      *)
(***************************************************************************)
Entry(n, u) == [name |-> n, url |-> u]

DisplayNames == {Empty, <<"w">>, <<"w", "-", "1">>, <<" ", "w">>, <<"/">>}

RichEntries ==
    {Entry(n, u) : n \in DisplayNames,
                   u \in {HTTPS_GITHUB \o <<"o", "/", "w">>,
                          GITAT_GITHUB \o <<"p", "/", "w">> \o DOTGIT}}

PlainEntries ==
    {Entry(Empty, u) : u \in {HTTPS_GITHUB \o <<"o", "/", "w">>,
                              HTTPS_GITHUB \o <<"w">>, <<"w">>}}

Manifests(entries) == UNION {[1..n -> entries] : n \in 1..MaxRepos}

LeftBehind(u) ==
    {Absent,
     [exists |-> TRUE, upstream |-> Empty, origin |-> u],
     [exists |-> TRUE, upstream |-> u, origin |-> OtherURL]}

\* The working copy at a target path when cloneOrPull gets there.
Priors(dirName, u) ==
    IF dirName \in DOMAIN fs THEN {fs[dirName]}
    ELSE IF world = "fresh" THEN {Absent}
    ELSE LeftBehind(u)

Init ==
    /\ \/ world = "fresh" /\ manifest \in Manifests(RichEntries) /\ username = Empty
       \/ /\ world = "any" /\ manifest \in Manifests(PlainEntries)
          /\ username \in {Empty, SP, <<"a", "l">>}
    /\ ssh \in BOOLEAN
    /\ idx = 0 /\ usedNames = {} /\ dirNames = << >> /\ fs = << >>
    /\ gitLog = << >> /\ status = "running"
    /\ IdleURL /\ IdleGit

\* The manifest entry the loop is at, and its normalized URL.
Current == manifest[idx + 1]
Effective(r) == normalizeRepoURL(r.url, ssh)

\* The commands of one cloneOrPull call, tagged with the entry they are for.
Tagged(i, log) == [k \in 1..Len(log) |-> [entry |-> i, cmd |-> log[k].cmd, ok |-> log[k].ok]]

\* What run does once cloneOrPull has returned: go on, or return the error.
AfterCloneOrPull(ok) == IF ok THEN "running" ELSE "error"

\* run skipping an entry it cannot normalize instead of returning.
SkipAndContinue == "running"

\* What run does when normalizeRepoURL fails.
AfterNormalizeError == "error"

RunNormalizeFails ==
    /\ status = "running" /\ idx < Len(manifest)
    /\ ~Effective(Current).ok
    /\ idx' = idx + 1
    /\ status' = AfterNormalizeError
    /\ UNCHANGED <<urlVars, gitVars, manifest, ssh, username, world, usedNames,
                   dirNames, fs, gitLog>>

RunIteration ==
    /\ status = "running" /\ idx < Len(manifest)
    /\ \E eff \in {Effective(Current)} :
         /\ eff.ok
         /\ \E dirName \in {repoDirName(Current.name, Current.url, usedNames)} :
              \E prior \in Priors(dirName, eff.url),
                 failAt \in (IF world = "fresh" THEN {0} ELSE FailPoints) :
                \E res \in {cloneOrPull(prior, eff.url, username, failAt)} :
                    /\ usedNames' = usedNames \cup {dirName}
                    /\ dirNames' = Append(dirNames, dirName)
                    /\ fs' = (dirName :> res.wc) @@ fs
                    /\ gitLog' = gitLog \o Tagged(idx + 1, res.log)
                    /\ status' = AfterCloneOrPull(res.ok)
    /\ idx' = idx + 1
    /\ UNCHANGED <<urlVars, gitVars, manifest, ssh, username, world>>

RunReturn ==
    /\ status = "running" /\ idx = Len(manifest)
    /\ status' = "done"
    /\ UNCHANGED <<urlVars, gitVars, manifest, ssh, username, world, idx, usedNames,
                   dirNames, fs, gitLog>>

Next == RunNormalizeFails \/ RunIteration \/ RunReturn

Spec == Init /\ [][Next]_vars

(***************************************************************************)
(* C1.  Directory-name uniqueness: the directory names derived in one run  *)
(* are pairwise distinct, and usedNames holds exactly one name per entry   *)
(* processed.                                                              *)
(***************************************************************************)
C1_DistinctNames ==
    /\ \A i, j \in 1..Len(dirNames) : i # j => dirNames[i] # dirNames[j]
    /\ usedNames = {dirNames[i] : i \in 1..Len(dirNames)}
    /\ Cardinality(usedNames) = Len(dirNames)

C1_Witness ==
    /\ Len(dirNames) = 3
    /\ \A i \in 1..3 : lastPathComponent(manifest[i].url) = <<"w">>
    /\ \E i \in 1..3 : manifest[i].name = <<"w", "-", "1">>
    /\ \E i \in 1..3 : dirNames[i] = <<"w", "-", "2">>

(***************************************************************************)
(* C5.  Fail-fast in manifest order: entries are taken up one at a time    *)
(* in manifest order; while run has not failed every entry taken up was    *)
(* normalized, named and handled without a git failure; once it has        *)
(* failed, the failing entry is the last one taken up, nothing failed      *)
(* before it, and no directory name or git command exists for a later      *)
(* entry; run returns nil only after the whole manifest.                   *)
(***************************************************************************)
NormOK(j) == normalizeRepoURL(manifest[j].url, ssh).ok

IsProbe(e) == e.cmd \in {"remote get-url upstream", "remote get-url origin"}

GitFailures == {k \in 1..Len(gitLog) : ~IsProbe(gitLog[k]) /\ ~gitLog[k].ok}

C5_FailFast ==
    /\ idx <= Len(manifest)
    /\ \A k \in 1..Len(gitLog) : gitLog[k].entry <= idx
    /\ \A k \in 1..(Len(gitLog) - 1) : gitLog[k].entry <= gitLog[k + 1].entry
    /\ status \in {"running", "done"} =>
          /\ Len(dirNames) = idx
          /\ \A j \in 1..idx : NormOK(j)
          /\ GitFailures = {}
    /\ status = "done" => idx = Len(manifest)
    /\ status = "error" =>
          /\ idx >= 1
          /\ \A j \in 1..(idx - 1) : NormOK(j)
          /\ GitFailures \subseteq {Len(gitLog)}
          /\ IF NormOK(idx)
             THEN Len(dirNames) = idx
             ELSE /\ Len(dirNames) = idx - 1
                  /\ \A k \in 1..Len(gitLog) : gitLog[k].entry < idx

C5_Witness ==
    /\ status = "error" /\ idx = 2 /\ Len(manifest) = 3
    /\ ~NormOK(2) /\ NormOK(3)
    /\ Len(dirNames) = 1 /\ gitLog # << >>

(***************************************************************************)
(* C6.  Remote setup with a fork username: after cloneOrPull succeeds with *)
(* a username that is not blank, whatever the working copy was before (not *)
(* yet cloned, cloned with only origin, with only upstream, or with both   *)
(* remotes), remote upstream points to the project URL and remote origin   *)
(* to the user's fork URL.                                                 *)
(***************************************************************************)
ForkURL == forkURLFromUpstream(gURL, username)

C6_RemotesAsClaimed ==
    (gRes.ok /\ NonBlank(username)) =>
        /\ ForkURL.ok
        /\ gRes.wc.upstream = gURL
        /\ gRes.wc.origin = ForkURL.url

(***************************************************************************)
(* The derivation rule of C10, restated: the base name of a URL, the       *)
(* usable form of a display name, and the name an entry is due given the   *)
(* names taken before it.                                                  *)
(***************************************************************************)
BaseName(u) == TrimSuffix(From(u, LastIndex(u, "/") + 1), DOTGIT)

Stripped(n) == SelectSeq(n, LAMBDA c : c \notin {"/", "\\", "NUL"})

TakenBefore(j) == {dirNames[k] : k \in 1..(j - 1)}

\* base, or base-k for the least k >= 1 such that base-k is not taken.
Fallback(base, taken) ==
    IF base \notin taken THEN base
    ELSE Suffixed(base, CHOOSE k \in 1..(Cardinality(taken) + 1) :
                           /\ Suffixed(base, k) \notin taken
                           /\ \A m \in 1..(k - 1) : Suffixed(base, m) \in taken)

Due(display, j) ==
    IF display # Empty /\ display \notin TakenBefore(j) THEN display
    ELSE Fallback(BaseName(manifest[j].url), TakenBefore(j))

\* base for 0, base-k for k >= 1.
Numbered(base, k) == IF k = 0 THEN base ELSE Suffixed(base, k)

SameBase(j, k) == BaseName(manifest[j].url) = BaseName(manifest[k].url)

(***************************************************************************)
(* C10 as claimed.  Every entry gets the sanitized display name when that  *)
(* is non-empty and unused, else base or base-k for the least free k; and  *)
(* among the entries sharing a base name the earliest has the unsuffixed   *)
(* name and the later ones base-1, base-2, ... in order, whether "the      *)
(* entries sharing a base name" are all entries with that base or only     *)
(* those that fall back to it.                                             *)
(***************************************************************************)
Display(j) == Stripped(TrimSpace(manifest[j].name))

FellBack(j) == ~(Display(j) # Empty /\ Display(j) \notin TakenBefore(j))

InOrderAmongAll ==
    \A j \in 1..Len(dirNames) :
        dirNames[j] = Numbered(BaseName(manifest[j].url),
                               Cardinality({k \in 1..(j - 1) : SameBase(j, k)}))

InOrderAmongFallbacks ==
    \A j \in 1..Len(dirNames) :
        FellBack(j) =>
            dirNames[j] = Numbered(BaseName(manifest[j].url),
                                   Cardinality({k \in 1..(j - 1) :
                                                   FellBack(k) /\ SameBase(j, k)}))

C10_RuleAsClaimed ==
    /\ \A j \in 1..Len(dirNames) : dirNames[j] = Due(Display(j), j)
    /\ InOrderAmongAll \/ InOrderAmongFallbacks

(***************************************************************************)
(* C10, amended.  Every entry gets the sanitized display name (trimmed of  *)
(* surrounding whitespace, then stripped of "/", "\" and NUL) when that is *)
(* non-empty and unused, else base or base-k for the least free k.  Among  *)
(* the entries that fall back to the same base name an earlier one has a   *)
(* lower suffix than a later one (the unsuffixed name counting as 0), and  *)
(* they get exactly base, base-1, base-2, ... in manifest order when no    *)
(* other entry has taken one of these names.                               *)
(***************************************************************************)
Ranks == 0..Len(dirNames)

\* Earlier entries whose name is base or base-k of entry j's base name.
Rivals(j) ==
    {k \in 1..(j - 1) :
        \E r \in Ranks : dirNames[k] = Numbered(BaseName(manifest[j].url), r)}

C10_Rule ==
    \A j \in 1..Len(dirNames) :
        /\ dirNames[j] = Due(Display(j), j)
        /\ FellBack(j) =>
              /\ \E r \in Ranks : dirNames[j] = Numbered(BaseName(manifest[j].url), r)
              /\ \A k \in 1..(j - 1) : (FellBack(k) /\ SameBase(j, k)) =>
                    \E r, q \in Ranks :
                        /\ q < r
                        /\ dirNames[k] = Numbered(BaseName(manifest[k].url), q)
                        /\ dirNames[j] = Numbered(BaseName(manifest[j].url), r)
              /\ (\A k \in Rivals(j) : FellBack(k) /\ SameBase(j, k)) =>
                    dirNames[j] = Numbered(BaseName(manifest[j].url),
                                           Cardinality(Rivals(j)))

C10_Witness ==
    /\ Len(dirNames) = 3
    /\ manifest[1].name = <<" ", "w">> /\ dirNames[1] = <<"w">>
    /\ manifest[2].name = <<"/">> /\ dirNames[2] = <<"w", "-", "1">>
    /\ HasSuffix(manifest[3].url, DOTGIT) /\ dirNames[3] = <<"w", "-", "2">>

(***************************************************************************)
(* C11.  Fork derivation cannot fail after a successful normalization:     *)
(* for a URL that normalizeRepoURL returned and a username that is not     *)
(* blank, forkURLFromUpstream succeeds; so a call of cloneOrPull on a      *)
(* target that was not yet cloned never ends with the fresh clone holding  *)
(* remote upstream but no remote origin while no git command failed.       *)
(***************************************************************************)
UpstreamOnly(wc) == wc.exists /\ wc.upstream # Empty /\ wc.origin = Empty

NoGitFailure(res) == \A k \in 1..Len(res.log) : res.log[k].ok

C11_ForkAfterNormalize ==
    (gRes # NoCall /\ NonBlank(username)) =>
        /\ ForkURL.ok
        /\ ~(~gPrior.exists /\ UpstreamOnly(gRes.wc) /\ NoGitFailure(gRes))

====
